---- MODULE Spec2Model ----
(***************************************************************************)
(* Model of update_ddns.py: a polling dynamic-DNS updater.                 *)
(*                                                                         *)
(* Python values that may be None are modelled as sets: {} is None and     *)
(* {v} is the value v.  Strings that the code splits or concatenates       *)
(* (record names, labels, the domain name) are sequences of one-character  *)
(* strings; strings that are only compared (addresses, ids) are TLA+       *)
(* strings.                                                                *)
(***************************************************************************)
EXTENDS Integers, Sequences, FiniteSets, TLC

VARIABLES
    pc,               \* position of main()
    file,             \* content of config.json
    config,           \* main(): config
    synced,           \* update_config_with_a_records wrote config.json
    dns_records,      \* main(): dns_records
    update_interval,  \* main(): update_interval
    zone,             \* the provider's records of the zone
    realIp,           \* the address the IP echo service would answer
    public_ip,        \* main(): public_ip
    i,                \* position of the for loop in dns_records
    record_id,        \* main(): record_id
    startup,          \* collaborator calls made before the polling loop
    log               \* collaborator calls of the current polling cycle

vars == <<pc, file, config, synced, dns_records, update_interval, zone, realIp,
          public_ip, i, record_id, startup, log>>

(* ------------------------------ bounds -------------------------------- *)

\* longest dns_records list of the configuration file at startup
MaxRecords == 2

(* ----------------------------- constants ------------------------------ *)

None == {}

Some(v) == {v}

Val(o) == CHOOSE v \in o : TRUE

\* main(): domain_name = "victorphan.net"
domain_name ==
    <<"v","i","c","t","o","r","p","h","a","n",".","n","e","t">>

\* main(): config.get("update_interval", 900)
DefaultInterval == 900

home == <<"h","o","m","e">>

office == <<"o","f","f","i","c","e">>

\* a name two labels below the root
deep == <<"a",".","b">>

\* the addresses the IP echo service and the resolver can answer
IPs == {"1.2.3.3", "1.2.3.4"}

\* record_name values of the configuration file; << >> is a missing or
\* empty record_name
Labels == {home, office, << >>}

(* ------------------------- string functions --------------------------- *)

\* f"{subdomain}.{domain_name}"
FullName(subdomain) == subdomain \o <<".">> \o domain_name

DotPositions(s) == {j \in 1..Len(s) : s[j] = "."}

Min(S) == CHOOSE m \in S : \A n \in S : m <= n

\* the full name with the '.<root domain>' suffix removed
StripRoot(s) ==
    LET n == Len(s) - Len(domain_name) - 1
    IN  IF n >= 0 /\ SubSeq(s, n + 1, Len(s)) = <<".">> \o domain_name
        THEN SubSeq(s, 1, n)
        ELSE s

\* record["name"].split('.')[0]
FirstLabel(s) ==
    IF DotPositions(s) = {} THEN s
    ELSE SubSeq(s, 1, Min(DotPositions(s)) - 1)

(* --------------------------- provider zone ---------------------------- *)

Rec(id, name, content, ttl, proxied) ==
    [id |-> id, name |-> name, content |-> content, ttl |-> ttl,
     proxied |-> proxied]

ZoneChoices ==
    { <<Rec("id1", FullName(home), "1.2.3.3", 300, FALSE),
        Rec("id2", FullName(office), "1.2.3.3", 1, TRUE)>>,
      <<Rec("id1", FullName(deep), "1.2.3.3", 300, FALSE),
        Rec("id2", FullName(home), "1.2.3.4", 120, FALSE)>>,
      <<Rec("id1", FullName(home), "1.2.3.3", 300, TRUE),
        Rec("id2", FullName(home), "1.2.3.3", 1, FALSE)>> }

(* ------------------------- configuration file ------------------------- *)

Doc(zid, tok, recs, interval) ==
    [cloudflare_zone_id |-> zid, cloudflare_api_token |-> tok,
     dns_records |-> recs, update_interval |-> interval]

EmptyDoc == Doc(None, None, None, None)

\* the keys of the configuration document, in the order of the file
Keys ==
    <<"cloudflare_zone_id", "cloudflare_api_token", "dns_records",
      "update_interval">>

\* a JSON value: a string, a number or the array of the record names
JVal(t, str, num, arr) == [t |-> t, s |-> str, n |-> num, a |-> arr]

\* the JSON value of a document's value
Encode(key, v) ==
    CASE key = "dns_records" -> JVal("array", "", 0, v)
      [] key = "update_interval" -> JVal("number", "", v, << >>)
      [] OTHER -> JVal("string", v, 0, << >>)

\* the value of a JSON value
Decode(val) ==
    CASE val.t = "array" -> val.a
      [] val.t = "number" -> val.n
      [] OTHER -> val.s

\* the mutant of json_dump: update_interval is not written
json_dump_no_interval(doc) ==
    LET Present(k) == doc[k] # None /\ k # "update_interval"
        present == SelectSeq(Keys, Present)
    IN  [j \in 1..Len(present) |->
            [key |-> present[j],
             val |-> Encode(present[j], Val(doc[present[j]]))]]

\* json.dump(config, f, indent=4): one member for every key of the document
json_dump(doc) ==
    LET Present(k) == doc[k] # None
        present == SelectSeq(Keys, Present)
    IN  [j \in 1..Len(present) |->
            [key |-> present[j],
             val |-> Encode(present[j], Val(doc[present[j]]))]]

\* the value of a key of a JSON object, None when the object has no such key
Member(text, key) ==
    LET at == {j \in 1..Len(text) : text[j].key = key}
    IN  IF at = {} THEN None ELSE Some(Decode(text[Min(at)].val))

\* json.load(f)
json_load(text) ==
    Doc(Member(text, "cloudflare_zone_id"),
        Member(text, "cloudflare_api_token"),
        Member(text, "dns_records"),
        Member(text, "update_interval"))

\* config.json: it is missing, is no JSON, or holds the text of a document
File(status, text) == [status |-> status, text |-> text]

RECURSIVE SeqsUpTo(_, _)
SeqsUpTo(S, n) ==
    IF n = 0 THEN {<< >>}
    ELSE LET shorter == SeqsUpTo(S, n - 1)
         IN  shorter \cup {Append(s, x) : s \in shorter, x \in S}

FileOf(doc) == File("ok", json_dump(doc))

FileChoices ==
    { File("NotFound", << >>), File("Malformed", << >>) }
    \cup { FileOf(Doc(Some("zone"), Some("token"), Some(recs), Some(60)))
           : recs \in SeqsUpTo(Labels, MaxRecords) }
    \cup { FileOf(Doc(None, Some("token"), Some(<<home>>), Some(60))),
           FileOf(Doc(Some("zone"), None, Some(<<home>>), Some(60))),
           FileOf(Doc(Some("zone"), Some("token"), None, Some(60))),
           FileOf(Doc(Some("zone"), Some("token"), Some(<<home>>), None)),
           FileOf(EmptyDoc) }

\* read_config: the parsed document, or None
read_config(f) == IF f.status = "ok" THEN Some(json_load(f.text)) ELSE None

\* write_config: the file after the call
write_config(f, doc, wr) ==
    CASE wr = "ok" -> File("ok", json_dump(doc))
      [] wr = "openFailed" -> f
      [] OTHER -> \* json.dump fails after open() truncated the file
                  File("Malformed", << >>)

\* config.get(key, default)
GetOr(o, default) == IF o = None THEN default ELSE Val(o)

(* ------------------------------ call log ------------------------------ *)

\* one collaborator call of the current polling cycle
Ev(op, idx, res, id, content, ttl, proxied) ==
    [op |-> op, idx |-> idx, res |-> res, id |-> id, content |-> content,
     ttl |-> ttl, proxied |-> proxied]

Calls(op, idx) == {n \in 1..Len(log) : log[n].op = op /\ log[n].idx = idx}

CallsOf(op) == {n \in 1..Len(log) : log[n].op = op}

(* ------------------------------- Init --------------------------------- *)

Init ==
    /\ pc = "start"
    /\ file \in FileChoices
    /\ config = None
    /\ synced = FALSE
    /\ dns_records = << >>
    /\ update_interval = DefaultInterval
    /\ zone \in ZoneChoices
    /\ realIp \in IPs
    /\ public_ip = None
    /\ i = 0
    /\ record_id = None
    /\ startup = << >>
    /\ log = << >>

(* ------------------------------ main() -------------------------------- *)

\* Python truth of an optional string
Truthy(o) == o # None /\ Val(o) # ""

\* lines 165 and 71: if not config (None, or a document without any key)
NotConfig(c) == c = None \/ c = Some(EmptyDoc)

\* line 174: all([zone_id, api_token, dns_records])
Valid(zone_id, api_token, recs) ==
    Truthy(zone_id) /\ Truthy(api_token) /\ recs # << >>

\* main(), lines 163-176: read the configuration and validate it
Start ==
    /\ pc = "start"
    /\ config' = read_config(file)
    /\ IF NotConfig(config')
       THEN /\ pc' = "done"
            /\ UNCHANGED <<dns_records, update_interval>>
       ELSE LET c == Val(config')
                recs == GetOr(c.dns_records, << >>)
            IN  /\ dns_records' = recs
                /\ update_interval' =
                       GetOr(c.update_interval, DefaultInterval)
                /\ pc' = IF Valid(c.cloudflare_zone_id,
                                  c.cloudflare_api_token, recs)
                         THEN "sync" ELSE "done"
    /\ startup' = Append(startup, <<"read", file.status>>)
    /\ UNCHANGED <<file, synced, zone, realIp, public_ip, i, record_id, log>>

\* get_all_a_records: the zone's records, [] on every exception
get_all_a_records(out) == IF out = "ok" THEN zone ELSE << >>

\* the list comprehension of update_config_with_a_records
LabelsOf(records) ==
    [k \in 1..Len(records) |-> FirstLabel(records[k].name)]

\* update_config_with_a_records, called at line 179
Sync(rd, out, wr) ==
    /\ pc = "sync"
    /\ LET reread == IF rd = "ok" THEN read_config(file) ELSE None
           first == Append(startup, <<"read", rd>>)
           listed == Append(first, <<"list", out>>)
       IN  IF NotConfig(reread)
           THEN /\ pc' = "poll"
                /\ startup' = first
                /\ UNCHANGED <<file, synced>>
           ELSE IF out = "badItem"
           THEN \* record["name"] raises KeyError, nothing catches it
                /\ pc' = "crashedSync"
                /\ startup' = listed
                /\ UNCHANGED <<file, synced>>
           ELSE LET dns == LabelsOf(get_all_a_records(out))
                    new == [Val(reread) EXCEPT !.dns_records = Some(dns)]
                IN  /\ pc' = "poll"
                    /\ startup' = Append(listed, <<"write", wr>>)
                    /\ file' = write_config(file, new, wr)
                    /\ synced' = (synced \/ wr = "ok")
    /\ UNCHANGED <<config, dns_records, update_interval, zone, realIp,
                   public_ip, i, record_id, log>>

NoEv(op, idx, res) == Ev(op, idx, res, None, None, None, None)

\* get_public_ip: the address, None on a failed request
get_public_ip(out) == IF out = "ok" THEN Some(realIp) ELSE None

\* the mutant of IterationRuns: the iteration runs without an address
IterationRunsAlways(ip) == TRUE

\* line 183: if public_ip
IterationRuns(ip) == Truthy(ip)

\* lines 182-183: get_public_ip and the test of its result
Discover(out) ==
    /\ pc = "poll"
    /\ log' = Append(log,
           Ev("discover", 0, out, None, get_public_ip(out), None, None))
    /\ IF out = "KeyError"
       THEN \* response.json()['ip'] raises KeyError, nothing catches it
            /\ pc' = "crashed"
            /\ UNCHANGED <<public_ip, i>>
       ELSE /\ public_ip' = get_public_ip(out)
            /\ IF IterationRuns(public_ip')
               THEN pc' = "record" /\ i' = 1
               ELSE pc' = "sleep" /\ UNCHANGED i
    /\ UNCHANGED <<file, config, synced, dns_records, update_interval, zone,
                   realIp,
                   record_id, startup>>

\* the for loop goes on to the next record, or ends
Advance ==
    IF i < Len(dns_records)
    THEN i' = i + 1 /\ pc' = "record"
    ELSE i' = i /\ pc' = "sleep"

Matches(name) == {k \in 1..Len(zone) : zone[k].name = name}

\* get_record_id: the id of the first record of that name, None on a
\* failed call
get_record_id(out, name) ==
    IF out = "ok" /\ Matches(name) # {}
    THEN Some(zone[Min(Matches(name))].id)
    ELSE None

\* the mutant of SkipRecord: a record without an id is not skipped
SkipRecordNever(id) == FALSE

\* line 194: if not record_id
SkipRecord(id) == ~Truthy(id)

\* main(), lines 185-195
LookupId(out) ==
    /\ pc = "record"
    /\ LET subdomain == dns_records[i]
           record_name == FullName(subdomain)
           id == get_record_id(out, record_name)
       IN  IF subdomain = << >>
           THEN Advance /\ UNCHANGED <<record_id, log>>
           ELSE /\ log' = Append(log,
                      Ev("find", i, out, id, None, None, None))
                /\ record_id' = id
                /\ IF SkipRecord(id) THEN Advance
                   ELSE pc' = "resolve" /\ UNCHANGED i
    /\ UNCHANGED <<file, config, synced, dns_records, update_interval, zone,
                   realIp,
                   public_ip, startup>>

\* the mutant of Decide: a name that does not resolve is skipped
DecideSkipUnresolved(ans, ip) ==
    CASE ans \in IPs -> IF Some(ans) # ip THEN "update" ELSE "unchanged"
      [] ans = "gaierror" -> "unchanged"
      [] OTHER -> "raise"

\* the mutant of Decide: an unchanged address is updated too
DecideAlwaysUpdate(ans, ip) ==
    CASE ans \in IPs -> "update"
      [] ans = "gaierror" -> "update"
      [] OTHER -> "raise"

\* lines 197-205: what the try statement does with gethostbyname's outcome
Decide(ans, ip) ==
    CASE ans \in IPs -> IF Some(ans) # ip THEN "update" ELSE "unchanged"
      [] ans = "gaierror" -> "update"
      [] OTHER -> "raise"

\* main(), lines 197-199 and 203-204: socket.gethostbyname and the
\* comparison with public_ip
Resolve(ans) ==
    /\ pc = "resolve"
    /\ log' = Append(log, NoEv("resolve", i, ans))
    /\ CASE Decide(ans, public_ip) = "update" ->
              pc' = "update" /\ UNCHANGED i
         [] Decide(ans, public_ip) = "unchanged" ->
              Advance
         [] OTHER ->
              \* an exception that is not socket.gaierror leaves main()
              pc' = "crashed" /\ UNCHANGED i
    /\ UNCHANGED <<file, config, synced, dns_records, update_interval, zone,
                   realIp,
                   public_ip, record_id, startup>>

\* the records of the zone with that id
ById(id) == {k \in 1..Len(zone) : Some(zone[k].id) = id}

\* get_record_details: (ttl, proxied); a request for an id the zone does
\* not have fails
get_record_details(out, id) ==
    IF ById(id) = {} THEN <<None, None>>
    ELSE LET r == zone[Min(ById(id))]
         IN  CASE out = "ok" -> <<Some(r.ttl), Some(r.proxied)>>
               [] out = "noProxied" -> <<Some(r.ttl), None>>
               [] OTHER -> <<None, None>>

\* the mutant of DetailsMissing: the values are tested for truth
DetailsMissingFalsy(ttl, proxied) ==
    ttl = None \/ proxied = None \/ proxied = Some(FALSE)

\* the guard of line 130
DetailsMissing(ttl, proxied) == ttl = None \/ proxied = None

\* the mutant of PutData: ttl is set to the provider's default
PutDataDefaultTtl(record_name, new_ip, ttl, proxied) ==
    [name |-> record_name, content |-> new_ip, ttl |-> Some(1),
     proxied |-> proxied]

\* the mutant of PutData: the address of the moment of the update
PutDataFreshIp(record_name, new_ip, ttl, proxied) ==
    [name |-> record_name, content |-> Some(realIp), ttl |-> ttl,
     proxied |-> proxied]

\* the request body of lines 139-145
PutData(record_name, new_ip, ttl, proxied) ==
    [name |-> record_name, content |-> new_ip, ttl |-> ttl,
     proxied |-> proxied]

\* the provider replaces the whole record
Replace(id, data) ==
    [k \in 1..Len(zone) |->
        IF Some(zone[k].id) = id
        THEN Rec(zone[k].id, data.name, Val(data.content), Val(data.ttl),
                 Val(data.proxied))
        ELSE zone[k]]

\* update_cloudflare_dns, called at lines 200 and 205
UpdateDns(dout, pout) ==
    /\ pc = "update"
    /\ LET id == record_id
           record_name == FullName(dns_records[i])
           details == get_record_details(dout, id)
           ttl == details[1]
           proxied == details[2]
           data == PutData(record_name, public_ip, ttl, proxied)
           fetched == Append(log,
               Ev("details", i, dout, record_id, None, ttl, proxied))
           put == Ev("put", i, pout, record_id, data.content,
                     data.ttl, data.proxied)
       IN  IF dout = "AttributeError"
           THEN \* "result": null, None.get raises, nothing catches it
                /\ log' = fetched
                /\ pc' = "crashed"
                /\ UNCHANGED <<zone, i>>
           ELSE IF DetailsMissing(ttl, proxied)
           THEN /\ log' = fetched
                /\ Advance
                /\ UNCHANGED zone
           ELSE /\ log' = Append(fetched, put)
                /\ zone' = IF pout = "ok" THEN Replace(id, data) ELSE zone
                /\ IF pout = "KeyError"
                   THEN \* result["success"] raises KeyError
                        pc' = "crashed" /\ UNCHANGED i
                   ELSE Advance
    /\ UNCHANGED <<file, config, synced, dns_records, update_interval, realIp,
                   public_ip, record_id, startup>>

\* the mutant of Sleep: the next cycle starts with a sync
SleepResync ==
    /\ pc = "sleep"
    /\ pc' = "sync"
    /\ log' = << >>
    /\ UNCHANGED <<file, config, synced, dns_records, update_interval, zone,
                   realIp, public_ip, i, record_id, startup>>

\* main(), lines 207-208
Sleep ==
    /\ pc = "sleep"
    /\ pc' = "poll"
    /\ log' = << >>
    /\ UNCHANGED <<file, config, synced, dns_records, update_interval, zone,
                   realIp,
                   public_ip, i, record_id, startup>>

Polling == pc \in {"poll", "record", "resolve", "update", "sleep"}

\* the network changes the host's public address
IpChange ==
    /\ pc \in {"start", "sync"} \/ Polling
    /\ realIp' \in IPs \ {realIp}
    /\ UNCHANGED <<pc, file, config, synced, dns_records, update_interval, zone,
                   public_ip, i, record_id, startup, log>>

ReadOutcomes == {"ok", "failed"}

\* "failed" is any exception of lines 58-66, "badItem" a result whose
\* items have no name
ListOutcomes == {"ok", "failed", "badItem"}

WriteOutcomes == {"ok", "openFailed", "partial"}

DiscoverOutcomes == {"ok", "RequestException", "KeyError"}

\* "failed" is any exception of lines 100-108
FindOutcomes == {"ok", "failed"}

ResolveOutcomes == IPs \cup {"gaierror", "herror"}

DetailsOutcomes == {"ok", "noProxied", "RequestException", "AttributeError"}

\* "failed" is success: false or a RequestException, "KeyError" an answer
\* without 'success'
PutOutcomes == {"ok", "failed", "KeyError"}

Next ==
    \/ Start
    \/ \E rd \in ReadOutcomes, out \in ListOutcomes, wr \in WriteOutcomes :
           Sync(rd, out, wr)
    \/ \E out \in DiscoverOutcomes : Discover(out)
    \/ \E out \in FindOutcomes : LookupId(out)
    \/ \E ans \in ResolveOutcomes : Resolve(ans)
    \/ \E dout \in DetailsOutcomes, pout \in PutOutcomes :
           UpdateDns(dout, pout)
    \/ Sleep
    \/ IpChange

Spec == Init /\ [][Next]_vars

(* ----------------------------- properties ----------------------------- *)

\* the dns_records of the document in config.json, None if it has none
Persisted ==
    IF read_config(file) = None THEN None
    ELSE Val(read_config(file)).dns_records

Indexes == 1..Len(dns_records)

\* record k of the list has been dealt with in the current cycle
Done(k) ==
    /\ k \in Indexes
    /\ \/ pc \in {"record", "resolve", "update"} /\ k < i
       \/ pc = "sleep" /\ Calls("find", k) # {}

Found(k) == \E n \in Calls("find", k) : Truthy(log[n].id)

FindNone(k) == \E n \in Calls("find", k) : log[n].id = None

ResolvedDiffer(k) ==
    \E n \in Calls("resolve", k) :
        log[n].res \in IPs /\ Some(log[n].res) # public_ip

ResolvedEqual(k) ==
    \E n \in Calls("resolve", k) : Some(log[n].res) = public_ip

Unresolved(k) == \E n \in Calls("resolve", k) : log[n].res = "gaierror"

DetailsOk(k) ==
    \E n \in Calls("details", k) :
        log[n].ttl # None /\ log[n].proxied # None

\* one PUT for record k, with the cycle's address
OnePut(k) ==
    /\ Cardinality(Calls("put", k)) = 1
    /\ \A n \in Calls("put", k) : log[n].content = public_ip

\* the PUTs for record k carry the ttl and proxied of the details call
\* before them
PutKeepsDetails(k) ==
    \A n \in Calls("put", k) :
        \E m \in Calls("details", k) :
            /\ m < n
            /\ log[n].ttl = log[m].ttl
            /\ log[n].proxied = log[m].proxied

\* C1, as claimed: a record whose id is found and whose name resolves to
\* an address other than the public IP gets exactly one PUT in the cycle,
\* with content = the public IP and the ttl/proxied of fetchDetails.
C1_OnePutOnMismatch ==
    \A k \in Indexes :
        (Done(k) /\ Found(k) /\ ResolvedDiffer(k))
            => (OnePut(k) /\ PutKeepsDetails(k))

\* C1, amended: such a record gets exactly one fetchDetails call; when it
\* returns both ttl and proxied, exactly one PUT follows, with content =
\* the public IP and those ttl/proxied; otherwise no PUT is issued.
C1_OnePutWhenDetailsKnown ==
    \A k \in Indexes :
        (Done(k) /\ Found(k) /\ ResolvedDiffer(k))
            => /\ Cardinality(Calls("details", k)) = 1
               /\ IF DetailsOk(k)
                  THEN OnePut(k) /\ PutKeepsDetails(k)
                  ELSE Calls("put", k) = {}

C1_Witness ==
    \E k \in Indexes :
        /\ Done(k) /\ Found(k) /\ ResolvedDiffer(k) /\ DetailsOk(k)
        /\ \E n \in Calls("put", k) : log[n].ttl = Some(300)

\* C2: no error escapes the polling loop once it has started.
C2_NoErrorEscapes == pc # "crashed"

\* C3: the polling loop iterates over the list that the sync wrote into
\* the configuration.
C3_IteratesSyncedList ==
    (Polling /\ synced) => Some(dns_records) = Persisted

\* C4, as claimed: a record whose id is found and whose name does not
\* resolve gets exactly one PUT in the cycle, with content = the public IP.
C4_OnePutOnResolutionFailure ==
    \A k \in Indexes :
        (Done(k) /\ Found(k) /\ Unresolved(k)) => OnePut(k)

\* C4, amended: such a record is never skipped: it gets exactly one
\* fetchDetails call; when that returns both ttl and proxied, exactly one
\* PUT follows with content = the public IP; otherwise no PUT is issued.
C4_UpdateAttemptedOnResolutionFailure ==
    \A k \in Indexes :
        (Done(k) /\ Found(k) /\ Unresolved(k))
            => /\ Cardinality(Calls("details", k)) = 1
               /\ IF DetailsOk(k) THEN OnePut(k)
                  ELSE Calls("put", k) = {}

C4_Witness ==
    \E k \in Indexes :
        /\ Done(k) /\ Found(k) /\ Unresolved(k) /\ DetailsOk(k)
        /\ Calls("put", k) # {}

\* C5: a record whose name resolves to the public IP gets no fetchDetails
\* and no PUT call in the cycle.
C5_NoCallsWhenUnchanged ==
    \A k \in Indexes :
        ResolvedEqual(k) =>
            Calls("details", k) = {} /\ Calls("put", k) = {}

C5_Witness == \E k \in Indexes : Done(k) /\ ResolvedEqual(k)

\* C6: a record for which findRecordId gives no id gets no resolution, no
\* fetchDetails and no PUT call in the cycle, and the loop goes on with
\* the next record of the list (or ends the cycle after the last one).
C6_NotFoundIsSkipped ==
    \A k \in Indexes :
        FindNone(k) =>
            /\ Calls("resolve", k) = {}
            /\ Calls("details", k) = {}
            /\ Calls("put", k) = {}
            /\ \/ k < i /\ pc \in {"record", "resolve", "update", "sleep",
                                    "crashed"}
               \/ k = i /\ k = Len(dns_records) /\ pc = "sleep"

C6_Witness ==
    \E k \in Indexes :
        FindNone(k) /\ k < Len(dns_records) /\ Calls("find", k + 1) # {}

ListFailed == \E n \in DOMAIN startup : startup[n] = <<"list", "failed">>

ListOk == \E n \in DOMAIN startup : startup[n] = <<"list", "ok">>

\* C7: when listARecords fails during the sync, the persisted list of
\* managed records is the one that was loaded at startup.
C7_FailedListKeepsRecords ==
    (Polling /\ synced /\ ListFailed)
        => Persisted = Some(dns_records)

\* C8: the labels the sync stores give back, with '.' and the root domain
\* appended, the full names of the provider's records.
C8_LabelsGiveBackNames ==
    (Polling /\ synced /\ ListOk) =>
        LET stored == Val(Persisted)
        IN  /\ Len(stored) = Len(zone)
            /\ \A k \in 1..Len(zone) :
                   /\ stored[k] = StripRoot(zone[k].name)
                   /\ FullName(stored[k]) = zone[k].name

NoIp == \E n \in CallsOf("discover") : log[n].res = "RequestException"

\* C10: a cycle whose IP discovery gives no address makes no other call
\* and goes to the sleep; after the sleep a new cycle starts with an IP
\* discovery.
C10_NoIpSkipsIteration ==
    /\ [](NoIp => (pc = "sleep" /\ Len(log) = 1))
    /\ [][(pc = "sleep" /\ pc' # pc) => (pc' = "poll" /\ log' = << >>)]_vars
    /\ [][(pc = "poll" /\ pc' # pc) =>
              (Len(log') = 1 /\ log'[1].op = "discover")]_vars

C10_Witness == NoIp /\ pc = "sleep" /\ Len(dns_records) = MaxRecords

(* ------------------------------ fairness ------------------------------ *)

\* a step of main()
ProgramStep ==
    \/ Start
    \/ \E rd \in ReadOutcomes, out \in ListOutcomes, wr \in WriteOutcomes :
           Sync(rd, out, wr)
    \/ \E out \in DiscoverOutcomes : Discover(out)
    \/ \E out \in FindOutcomes : LookupId(out)
    \/ \E ans \in ResolveOutcomes : Resolve(ans)
    \/ \E dout \in DetailsOutcomes, pout \in PutOutcomes :
           UpdateDns(dout, pout)
    \/ Sleep

\* The process keeps running, and a call to the IP echo service or to the
\* provider that is made again and again eventually succeeds, for every
\* record of the list.  Nothing is assumed of the resolver's answers.
Fairness ==
    /\ WF_vars(ProgramStep)
    /\ SF_vars(Discover("ok"))
    /\ \A k \in 1..MaxRecords : SF_vars(i = k /\ LookupId("ok"))
    /\ \A k \in 1..MaxRecords : SF_vars(i = k /\ UpdateDns("ok", "ok"))

\* a complete configuration that lists two records
FairInit ==
    /\ Init
    /\ file = FileOf(Doc(Some("zone"), Some("token"),
                         Some(<<home, office>>), Some(60)))

FairSpec == FairInit /\ [][Next]_vars /\ Fairness

Running == pc \notin {"done", "crashedSync", "crashed"}

\* the provider has a record for entry k of the list, and its content is ip
Converged(k, ip) ==
    (k \in Indexes /\ Matches(FullName(dns_records[k])) # {})
        => zone[Min(Matches(FullName(dns_records[k])))].content = ip

\* C9: while the process runs and the public IP stays ip, the content of
\* every listed record that the provider has eventually equals ip,
\* whatever the resolver answers.
C9_Convergence ==
    \A ip \in IPs : \A k \in 1..MaxRecords :
        ([](Running /\ realIp = ip)) => <>(Polling /\ Converged(k, ip))

(* ------------------- save and load of a configuration ----------------- *)

\* the valid configuration documents
ValidDocs ==
    { Doc(Some("zone"), Some("token"), Some(recs), interval) :
          recs \in SeqsUpTo(Labels, MaxRecords),
          interval \in {None, Some(60), Some(DefaultInterval)} }

\* a document to save, and what config.json held before
SaveInit ==
    /\ pc = "save"
    /\ config \in {Some(doc) : doc \in ValidDocs}
    /\ file \in { File("NotFound", << >>), File("Malformed", << >>),
                  FileOf(Doc(Some("zone"), Some("token"), Some(<<home>>),
                             Some(60))) }
    /\ synced = FALSE
    /\ dns_records = << >>
    /\ update_interval = DefaultInterval
    /\ zone \in ZoneChoices
    /\ realIp \in IPs
    /\ public_ip = None
    /\ i = 0
    /\ record_id = None
    /\ startup = << >>
    /\ log = << >>

\* write_config(config_file_path, config)
Save(wr) ==
    /\ pc = "save"
    /\ file' = write_config(file, Val(config), wr)
    /\ startup' = Append(startup, <<"write", wr>>)
    /\ pc' = "load"
    /\ UNCHANGED <<config, synced, dns_records, update_interval, zone, realIp,
                   public_ip, i, record_id, log>>

\* config = read_config(config_file_path)
Load ==
    /\ pc = "load"
    /\ config' = read_config(file)
    /\ startup' = Append(startup, <<"read", file.status>>)
    /\ pc' = "loaded"
    /\ UNCHANGED <<file, synced, dns_records, update_interval, zone, realIp,
                   public_ip, i, record_id, log>>

SaveNext ==
    \/ \E wr \in WriteOutcomes : Save(wr)
    \/ Load

SaveSpec == SaveInit /\ [][SaveNext]_vars

Saved == startup # << >> /\ startup[1] = <<"write", "ok">>

\* C12: a valid document that write_config has written is the document
\* that read_config then returns.
C12_RoundTrip == [][(pc = "load" /\ Saved) => config' = config]_vars

C12_Witness ==
    /\ pc = "loaded" /\ Saved /\ config # None
    /\ Val(config).update_interval = Some(60)
    /\ Len(Val(Val(config).dns_records)) = MaxRecords

\* C11: with a zone id and an api token in it, only a configuration that
\* cannot be read makes main() return before the sync; an empty or absent
\* dns_records list does not.
C11_OnlyUnreadableConfigStops ==
    LET credentials ==
            config # None =>
                /\ Truthy(Val(config).cloudflare_zone_id)
                /\ Truthy(Val(config).cloudflare_api_token)
    IN  (pc = "done" /\ credentials) => config = None

(* ------------------------- further properties ------------------------- *)

\* C13: a PUT comes right after a details call for the same record and id
\* that gave both ttl and proxied; a details call that lacks one of them
\* is followed by no PUT for the record; proxied = false is a value.
C13_PutNeedsDetails ==
    /\ \A n \in CallsOf("put") :
           /\ n > 1
           /\ log[n - 1].op = "details"
           /\ log[n - 1].idx = log[n].idx
           /\ log[n - 1].id = log[n].id
           /\ log[n - 1].ttl # None
           /\ log[n - 1].proxied # None
    /\ \A k \in Indexes :
           (\E m \in Calls("details", k) :
                log[m].ttl = None \/ log[m].proxied = None)
               => Calls("put", k) = {}
    /\ \A k \in Indexes :
           (Done(k) /\ \E m \in Calls("details", k) :
                           log[m].ttl # None /\ log[m].proxied = Some(FALSE))
               => Calls("put", k) # {}

C13_Witness ==
    \E k \in Indexes :
        Done(k) /\ \E n \in Calls("put", k) : log[n].proxied = Some(FALSE)

Last == log[Len(log)]

\* C14: in a cycle that has an address, the records are looked up once
\* each and in the order of the list, and a failed findRecordId,
\* fetchDetails or updateRecord call does not end the loop.
C14_FailureIsolation ==
    /\ \A n \in CallsOf("find") : \A m \in CallsOf("find") :
           n < m => log[n].idx < log[m].idx
    /\ (pc = "sleep" /\ ~NoIp) =>
           \A k \in Indexes :
               dns_records[k] # << >> => Cardinality(Calls("find", k)) = 1
    /\ pc = "crashed" => Last.op \notin {"find", "details", "put"}

Count(op) == Cardinality({n \in DOMAIN startup : startup[n][1] = op})

C16_OneAddressPerIteration ==
    /\ log # << >> =>
           (log[1].op = "discover" /\ Cardinality(CallsOf("discover")) = 1)
    /\ \A n \in CallsOf("put") :
           log[1].content # None /\ log[n].content = log[1].content
    /\ \A k \in Indexes :
           Done(k) =>
               \A m \in Calls("resolve", k) :
                   log[m].res \in IPs =>
                       (Calls("details", k) # {}
                            <=> Some(log[m].res) # log[1].content)

\* a PUT was made and the public address has changed since the discovery
C16_Witness ==
    /\ pc = "sleep"
    /\ \E n \in CallsOf("put") : log[n].content # Some(realIp)

\* the provider's content for record k is the cycle's public address, and
\* the resolver answered that content
Steady(k) ==
    \E n \in Calls("find", k) : \E m \in Calls("resolve", k) :
        /\ ById(log[n].id) # {}
        /\ Some(zone[Min(ById(log[n].id))].content) = log[1].content
        /\ log[m].res = zone[Min(ById(log[n].id))].content

\* C17: a record whose provider content is the public address, and for
\* which the resolver answers that content, gets no fetchDetails and no
\* PUT call in the cycle.
C17_SteadyState ==
    \A k \in Indexes :
        Steady(k) => (Calls("details", k) = {} /\ Calls("put", k) = {})

\* a steady cycle after an earlier cycle has updated the record
C17_Witness ==
    /\ pc = "sleep" /\ CallsOf("put") = {}
    /\ zone[1].name = FullName(home) /\ zone[2].name = FullName(office)
    /\ zone[1].content = "1.2.3.4"
    /\ \E k \in Indexes : dns_records[k] = home /\ Steady(k)

====
